---- MODULE Spec2Model ----
(***************************************************************************)
(* Model of the two fluent-bit output plugins out_pulsar and out_narvar.   *)
(*                                                                         *)
(* out_pulsar: cb_pulsar_init / flb_pulsar_conf_create, cb_pulsar_flush,   *)
(* cb_pulsar_exit.  out_narvar: cb_narvar_init, cb_narvar_flush,           *)
(* cb_narvar_exit.  One output instance is bound to one plugin; the host   *)
(* agent drives it through init -> flush* -> exit.  The broker client      *)
(* library, the heap allocator and the JSON formatter are the environment  *)
(* and answer nondeterministically.                                        *)
(***************************************************************************)
EXTENDS Integers, Sequences, FiniteSets, TLC

\* ------------------------------------------------------------------ bounds
MaxRecs == 2   \* valid records in one raw buffer

\* ------------------------------------------------------------- value sets
Plugins    == {"pulsar", "narvar"}
Timestamps == {"1000.0", "1001.0"}

\* a field-map: ordered key/value pairs (msgpack map, keys not unique-checked)
FieldMaps == { <<>>,
               << <<"msg", "a">> >>,
               << <<"msg", "a">>, <<"lvl", "b">> >>,
               << <<"lvl", "b">>, <<"msg", "a">> >> }

\* the sequences over S of length at most n
SeqsUpTo(S, n) == UNION {[1..k -> S] : k \in 0..n}

\* one record on the wire: the 2-element array [timestamp, field-map]
Records    == Timestamps \X FieldMaps
\* what follows the valid records in the raw buffer: nothing, or the first
\* bytes of a record that was cut off
Tails      == {"none", "trunc"}
RawBatches == [recs : SeqsUpTo(Records, MaxRecs), tail : Tails]
NoBatch    == [recs |-> <<>>, tail |-> "none"]

\* broker results (pulsar_result)
PulsarResults == {"Ok", "ConnectError", "Timeout"}

\* --------------------------------------------------------------- pointers
NULL       == [st |-> "null",   id |-> "0"]
Heap(id)   == [st |-> "heap",   id |-> id]
Static(id) == [st |-> "static", id |-> id]

\* blocks and library handles a session can hold
SessionIds == {"p_ctx", "p_conf", "p_client", "p_producer_conf", "p_producer",
               "p_broker", "p_topic", "n_ctx"}
\* resources one pulsar flush acquires
FlushRes   == {"result", "tmp_sbuf", "json_buf", "message"}

\* JSON text, as the value it denotes
JNull      == [type |-> "null", elems |-> <<>>]

VARIABLES
    plugin,      \* the plugin this output instance is bound to
    heap,        \* SessionIds -> "unalloc" | "live" | "freed"
    frees,       \* SessionIds -> number of times the block was released
    freeCalls,   \* set of pointers handed to flb_free so far
    \* out_pulsar session
    pLife,       \* "unloaded" | "ready" | "init_failed" | "exited"
    pInitRet,    \* "unset" | "0" | "-1": return value of cb_pulsar_init
    pContext,    \* the output context of the instance (flb_output_set_context)
    pctx,        \* contents of struct flb_pulsar
    pInitIn,     \* what the environment answered during init
    \* out_pulsar flush in progress
    pc,          \* "idle" | "pack" | "json" | "send" | "done"
    data,        \* raw buffer of the flush
    array_size,
    tmp_sbuf,    \* temporary msgpack buffer: sequence of tokens
    json_ret,    \* "unset" | "0" | "-1"
    json_buf,    \* JSON text produced
    fres,        \* FlushRes -> "none" | "live" | "released"
    sent,        \* messages handed to pulsar_producer_send in this flush
    err,         \* "unset" or the pulsar_result of the send
    outcome,     \* "none" or the code given to FLB_OUTPUT_RETURN
    prevOutcome, \* outcome of the flush before this one
    \* out_narvar
    nLife,       \* "unloaded" | "ready" | "init_failed" | "exited" | "crashed"
    nInitRet, nContext,
    nctx,        \* contents of struct flb_out_narvar_config
    nbuf,        \* tag buffer of the last flush: "none" | "live" | "freed"
    cnt,         \* records printed by the last flush
    nOutcome,
    nAllocOk     \* whether flb_malloc answered the last flush

pvars == <<pLife, pInitRet, pContext, pctx, pInitIn>>
fvars == <<pc, data, array_size, tmp_sbuf, json_ret, json_buf, fres, sent,
           err, outcome, prevOutcome>>
nvars == <<nLife, nInitRet, nContext, nctx, nbuf, cnt, nOutcome, nAllocOk>>
hvars == <<heap, frees, freeCalls>>
vars  == <<plugin, hvars, pvars, fvars, nvars>>

\* ------------------------------------------------------------- allocator
\* a block or handle comes to life
Acquire(h, ids) == [i \in SessionIds |-> IF i \in ids THEN "live" ELSE h[i]]

\* flb_free(p) / pulsar_*_free(p): a heap block is released; a pointer to
\* static storage names no block
Release(h, p) ==
    IF p.st = "heap" THEN [h EXCEPT ![p.id] = "freed"] ELSE h

CountRelease(f, p) ==
    IF p.st = "heap" THEN [f EXCEPT ![p.id] = @ + 1] ELSE f

\* ------------------------------------------------- struct flb_pulsar
ZeroCtx == [topic_conf    |-> [name |-> NULL, topic |-> NULL, broker |-> NULL],
            blocked       |-> 0,
            conf          |-> NULL,
            client        |-> NULL,
            producer_conf |-> NULL,
            producer      |-> NULL]

\* topic_conf->topic: a duplicate of the property, or the literal default
TopicPtr(hasTopicProp) ==
    IF hasTopicProp THEN Heap("p_topic") ELSE Static("FLB_PULSAR_TOPIC")

\* pulsar_client_create_producer stores the producer only when it answers Ok
ProducerPtr(e) == IF e = "Ok" THEN Heap("p_producer") ELSE NULL

\* the context as flb_pulsar_conf_create has filled it when it reaches the
\* check of the producer result
FilledCtx(hasTopicProp, e) ==
    [topic_conf    |-> [name   |-> NULL,
                        topic  |-> TopicPtr(hasTopicProp),
                        broker |-> Heap("p_broker")],
     blocked       |-> 0,
     conf          |-> Heap("p_conf"),
     client        |-> Heap("p_client"),
     producer_conf |-> Heap("p_producer_conf"),
     producer      |-> ProducerPtr(e)]

\* blocks and handles created on the way to that check
ConfAcquired(hasTopicProp, e) ==
    {"p_ctx", "p_conf", "p_broker", "p_client", "p_producer_conf"}
      \cup (IF hasTopicProp THEN {"p_topic"} ELSE {})
      \cup (IF e = "Ok" THEN {"p_producer"} ELSE {})

\* a conf_create that does not look at the producer result
ConfCreateReturn_NoErrCheck(callocOk, e) ==
    IF ~callocOk THEN NULL ELSE Heap("p_ctx")

\* return value of flb_pulsar_conf_create
ConfCreateReturn(callocOk, e) ==
    IF ~callocOk THEN NULL
    ELSE IF e # "Ok" THEN NULL
    ELSE Heap("p_ctx")

\* what flb_pulsar_conf_create releases on its failure path
ConfFailureFrees(callocOk, e) ==
    IF callocOk /\ e # "Ok" THEN <<Heap("p_ctx")>> ELSE <<>>

\* cb_pulsar_init: return value and context set for a conf_create result
InitReturn(ctxp)  == IF ctxp = NULL THEN "-1" ELSE "0"
InitContext(ctxp) == IF ctxp = NULL THEN NULL ELSE ctxp

\* the producer can only be created through a client that reached the broker
ProducerAnswers(clientOk) ==
    IF clientOk THEN PulsarResults ELSE PulsarResults \ {"Ok"}

\* a sequence of release calls, in order
RECURSIVE ReleaseAll(_, _)
ReleaseAll(h, ps) ==
    IF ps = <<>> THEN h ELSE ReleaseAll(Release(h, Head(ps)), Tail(ps))

RECURSIVE CountAll(_, _)
CountAll(f, ps) ==
    IF ps = <<>> THEN f ELSE CountAll(CountRelease(f, Head(ps)), Tail(ps))

Range(q) == {q[i] : i \in 1..Len(q)}

cb_pulsar_init(callocOk, hasTopicProp, clientOk, e) ==
    /\ plugin = "pulsar"
    /\ pLife = "unloaded"
    /\ e \in ProducerAnswers(clientOk)
    /\ LET ctxp  == ConfCreateReturn(callocOk, e)
           freed == ConfFailureFrees(callocOk, e)
           got   == IF callocOk THEN ConfAcquired(hasTopicProp, e) ELSE {}
       IN  /\ pctx'      = IF callocOk THEN FilledCtx(hasTopicProp, e) ELSE ZeroCtx
           /\ heap'      = ReleaseAll(Acquire(heap, got), freed)
           /\ frees'     = CountAll(frees, freed)
           /\ freeCalls' = freeCalls \cup Range(freed)
           /\ pInitRet'  = InitReturn(ctxp)
           /\ pContext'  = InitContext(ctxp)
           /\ pLife'     = IF InitReturn(ctxp) = "0" THEN "ready" ELSE "init_failed"
    /\ pInitIn' = [calloc |-> callocOk, client |-> clientOk, err |-> e]
    /\ UNCHANGED <<plugin, fvars, nvars>>

\* ------------------------------------------------------ cb_pulsar_flush
\* msgpack_unpack_next at record offset off: a whole record is unpacked; at
\* the end of the buffer, and at a record that was cut off, the unpacker
\* answers that it needs more bytes
UnpackNext(d, off) ==
    IF off < Len(d.recs) THEN "MSGPACK_UNPACK_SUCCESS"
    ELSE IF d.tail = "trunc" THEN "MSGPACK_UNPACK_CONTINUE"
    ELSE "MSGPACK_UNPACK_CONTINUE"

\* the value of the unpacker's answer as a C loop condition
LoopGoesOn(r) == r # "MSGPACK_UNPACK_CONTINUE"

\* first pass: array_size++ for every record unpacked
RECURSIVE CountLoop(_, _, _)
CountLoop(d, off, n) ==
    IF LoopGoesOn(UnpackNext(d, off)) THEN CountLoop(d, off + 1, n + 1) ELSE n

\* a first pass whose counter starts one too high
CountPass_OffByOne(d) == CountLoop(d, 0, 1)

CountPass(d) == CountLoop(d, 0, 0)

\* tokens of the temporary msgpack buffer
ArrayHdr(n) == [t |-> "array", n |-> n, s |-> ""]
MapHdr(n)   == [t |-> "map",   n |-> n, s |-> ""]
Obj(v)      == [t |-> "obj",   n |-> 0, s |-> v]

\* the map of a record: root.via.array.ptr[1]
RecordMap(root) == root[2]

\* msgpack_pack_map, then key and value of every entry in order
RECURSIVE PackEntries(_, _)
PackEntries(map, i) ==
    IF i > Len(map) THEN <<>>
    ELSE <<Obj(map[i][1]), Obj(map[i][2])>> \o PackEntries(map, i + 1)

PackMap(map) == <<MapHdr(Len(map))>> \o PackEntries(map, 1)

\* second pass: one map per record unpacked
RECURSIVE PackLoop(_, _)
PackLoop(d, off) ==
    IF LoopGoesOn(UnpackNext(d, off))
    THEN PackMap(RecordMap(d.recs[off + 1])) \o PackLoop(d, off + 1)
    ELSE <<>>

\* the temporary buffer after the second pass
PackPass(d, declared) == <<ArrayHdr(declared)>> \o PackLoop(d, 0)

\* flb_msgpack_raw_to_json_str: reads one object from the buffer and
\* formats it.  ReadEntries/ReadMaps walk the tokens as the formatter does.
RECURSIVE ReadEntries(_, _, _)
ReadEntries(buf, pos, n) ==
    IF n = 0 THEN [ok |-> TRUE, val |-> <<>>, pos |-> pos]
    ELSE IF pos + 1 > Len(buf) \/ buf[pos].t # "obj" \/ buf[pos + 1].t # "obj"
         THEN [ok |-> FALSE, val |-> <<>>, pos |-> pos]
    ELSE LET rest == ReadEntries(buf, pos + 2, n - 1)
         IN  [ok  |-> rest.ok,
              val |-> << <<buf[pos].s, buf[pos + 1].s>> >> \o rest.val,
              pos |-> rest.pos]

RECURSIVE ReadMaps(_, _, _)
ReadMaps(buf, pos, n) ==
    IF n = 0 THEN [ok |-> TRUE, val |-> <<>>, pos |-> pos]
    ELSE IF pos > Len(buf) \/ buf[pos].t # "map"
         THEN [ok |-> FALSE, val |-> <<>>, pos |-> pos]
    ELSE LET m    == ReadEntries(buf, pos + 1, buf[pos].n)
             rest == IF m.ok THEN ReadMaps(buf, m.pos, n - 1)
                     ELSE [ok |-> FALSE, val |-> <<>>, pos |-> m.pos]
         IN  [ok  |-> m.ok /\ rest.ok,
              val |-> <<m.val>> \o rest.val,
              pos |-> rest.pos]

\* the JSON text for the buffer: an array of objects, or no valid text when
\* the buffer does not hold the elements its header declares
ToJson(buf) ==
    IF buf = <<>> \/ buf[1].t # "array" THEN [type |-> "invalid", elems |-> <<>>]
    ELSE LET r == ReadMaps(buf, 2, buf[1].n)
         IN  IF r.ok THEN [type |-> "array", elems |-> r.val]
             ELSE [type |-> "invalid", elems |-> <<>>]

\* return value of flb_msgpack_raw_to_json_str: -1 when it cannot allocate
RawToJsonRet(allocOk) == IF allocOk THEN "0" ELSE "-1"

\* a flush that goes on to send whatever the conversion returned
AfterJson_NoRetCheck(ret) == "send"

\* where the flush goes after the JSON conversion
AfterJson(ret) == IF ret # "0" THEN "done" ELSE "send"

\* the code returned when the JSON conversion failed
JsonFailCode == "FLB_ERROR"

\* the code returned after pulsar_producer_send
SendCode(e) == IF e = "Ok" THEN "FLB_OK" ELSE "FLB_ERROR"

\* the message handle when the flush returns after the send
MessageAfterSend(e) == IF e = "Ok" THEN "released" ELSE "live"

\* the JSON buffer when the flush returns after the send
JsonBufAfterSend(e) == "live"

\* a flush that marks the session blocked when the send fails
CtxAfterSend_SetsBlocked(c, e) ==
    IF e # "Ok" THEN [c EXCEPT !.blocked = 1] ELSE c

\* what the flush writes through its ctx pointer: it only reads ctx->producer
CtxAfterSend(c, e) == c

NoRes == [r \in FlushRes |-> "none"]

\* lines 60-65: first pass over the raw buffer
PFlushCount ==
    /\ plugin = "pulsar"
    /\ pLife = "ready"
    /\ pc = "idle"
    /\ \E batch \in RawBatches :
          /\ data'       = batch
          /\ array_size' = CountPass(batch)
    /\ fres'        = [NoRes EXCEPT !["result"] = "live"]
    /\ tmp_sbuf'    = <<>>
    /\ json_ret'    = "unset"
    /\ json_buf'    = JNull
    /\ sent'        = <<>>
    /\ err'         = "unset"
    /\ outcome'     = "none"
    /\ pc'          = "pack"
    /\ UNCHANGED <<plugin, hvars, pvars, nvars, prevOutcome>>

\* lines 68-91: second pass, re-encoding into the temporary buffer
PFlushPack ==
    /\ pc = "pack"
    /\ tmp_sbuf' = PackPass(data, array_size)
    /\ fres'     = [fres EXCEPT !["result"] = "released", !["tmp_sbuf"] = "live"]
    /\ pc'       = "json"
    /\ UNCHANGED <<plugin, hvars, pvars, nvars, data, array_size, json_ret,
                   json_buf, sent, err, outcome, prevOutcome>>

\* lines 94-100: format to JSON, release the temporary buffer
PFlushJson(allocOk) ==
    /\ pc = "json"
    /\ LET ret == RawToJsonRet(allocOk)
       IN  /\ json_ret' = ret
           /\ json_buf' = IF ret = "0" THEN ToJson(tmp_sbuf) ELSE JNull
           /\ tmp_sbuf' = <<>>
           /\ fres'     = [fres EXCEPT !["tmp_sbuf"] = "released",
                                       !["json_buf"] = IF ret = "0" THEN "live" ELSE "none"]
           /\ pc'       = AfterJson(ret)
           /\ outcome'  = IF AfterJson(ret) = "done" THEN JsonFailCode ELSE outcome
    /\ UNCHANGED <<plugin, hvars, pvars, nvars, data, array_size,
                   sent, err, prevOutcome>>

\* lines 102-113: create the message, send it, return
PFlushSend(e) ==
    /\ pc = "send"
    /\ sent'    = Append(sent, [producer |-> pctx.producer, payload |-> json_buf])
    /\ err'     = e
    /\ fres'    = [fres EXCEPT !["message"]  = MessageAfterSend(e),
                               !["json_buf"] = JsonBufAfterSend(e)]
    /\ outcome' = SendCode(e)
    /\ pctx'    = CtxAfterSend(pctx, e)
    /\ pc'      = "done"
    /\ UNCHANGED <<plugin, hvars, nvars, pLife, pInitRet, pContext, pInitIn,
                   data, array_size, tmp_sbuf, json_ret, json_buf, prevOutcome>>

\* FLB_OUTPUT_RETURN has handed the code to the host agent: the locals of
\* the flush are gone and the instance can be flushed again
PFlushReturn ==
    /\ pc = "done"
    /\ prevOutcome' = outcome
    /\ pc'          = "idle"
    /\ data'        = NoBatch
    /\ array_size'  = 0
    /\ tmp_sbuf'    = <<>>
    /\ json_ret'    = "unset"
    /\ json_buf'    = JNull
    /\ fres'        = NoRes
    /\ sent'        = <<>>
    /\ err'         = "unset"
    /\ outcome'     = "none"
    /\ UNCHANGED <<plugin, hvars, pvars, nvars>>

\* ------------------------------------------------------- cb_pulsar_exit
\* what cb_pulsar_exit releases, in order
ExitFrees(ctxp) == IF ctxp = NULL THEN <<>> ELSE <<ctxp>>

cb_pulsar_exit ==
    /\ plugin = "pulsar"
    /\ pLife \in {"ready", "init_failed"}
    /\ pc = "idle"
    /\ LET freed == ExitFrees(pContext)
       IN  /\ heap'      = ReleaseAll(heap, freed)
           /\ frees'     = CountAll(frees, freed)
           /\ freeCalls' = freeCalls \cup Range(freed)
    /\ pLife' = "exited"
    /\ UNCHANGED <<plugin, pInitRet, pContext, pctx, pInitIn, fvars, nvars>>

\* ------------------------------------------------------------ out_narvar
FLB_STDOUT_OUT_MSGPACK      == 0
FLB_STDOUT_JSON_DATE_DOUBLE == 0

ZeroNCtx == [out_format        |-> 0,
             json_date_format  |-> 0,
             json_date_key     |-> NULL,
             json_date_key_len |-> 0]

\* ctx->json_date_key = "date": the address of a string literal
DateKeyPtr == Static("date")

\* the context as cb_narvar_init fills it
NarvarCtx == [out_format        |-> FLB_STDOUT_OUT_MSGPACK,
              json_date_format  |-> FLB_STDOUT_JSON_DATE_DOUBLE,
              json_date_key     |-> DateKeyPtr,
              json_date_key_len |-> Len("date")]

cb_narvar_init(callocOk) ==
    /\ plugin = "narvar"
    /\ nLife = "unloaded"
    /\ IF ~callocOk
       THEN /\ nInitRet' = "-1"
            /\ nLife'    = "init_failed"
            /\ UNCHANGED <<nContext, nctx, heap>>
       ELSE /\ nctx'     = NarvarCtx
            /\ heap'     = Acquire(heap, {"n_ctx"})
            /\ nContext' = Heap("n_ctx")
            /\ nInitRet' = "0"
            /\ nLife'    = "ready"
    /\ UNCHANGED <<plugin, frees, freeCalls, pvars, fvars, nbuf, cnt,
                   nOutcome, nAllocOk>>

\* the loop of cb_narvar_flush: cnt++ for every record unpacked and printed
RECURSIVE PrintLoop(_, _, _)
PrintLoop(d, off, n) ==
    IF LoopGoesOn(UnpackNext(d, off)) THEN PrintLoop(d, off + 1, n + 1) ELSE n

\* the code cb_narvar_flush returns
NarvarFlushCode(allocOk) == IF allocOk THEN "FLB_OK" ELSE "FLB_RETRY"

\* the records cb_narvar_flush prints
NarvarFlushPrints(batch, allocOk) == IF allocOk THEN PrintLoop(batch, 0, 0) ELSE 0

cb_narvar_flush ==
    /\ plugin = "narvar"
    /\ nLife = "ready"
    /\ \E batch \in RawBatches, allocOk \in BOOLEAN :
          /\ nAllocOk' = allocOk
          /\ nbuf'     = IF allocOk THEN "freed" ELSE "none"
          /\ cnt'      = NarvarFlushPrints(batch, allocOk)
          /\ nOutcome' = NarvarFlushCode(allocOk)
    /\ UNCHANGED <<plugin, hvars, pvars, fvars, nLife, nInitRet, nContext, nctx>>

\* what cb_narvar_exit hands to flb_free, in order
NarvarExitFrees(ctxp, c) ==
    IF ctxp = NULL THEN <<>>
    ELSE (IF c.json_date_key # NULL THEN <<c.json_date_key>> ELSE <<>>) \o <<ctxp>>

\* the calls up to and including the first one whose argument is not a heap
\* block: the allocator may end the process there
RECURSIVE UpToBadFree(_)
UpToBadFree(ps) ==
    IF ps = <<>> THEN <<>>
    ELSE IF Head(ps).st # "heap" THEN <<Head(ps)>>
    ELSE <<Head(ps)>> \o UpToBadFree(Tail(ps))

HasBadFree(ps) == \E i \in 1..Len(ps) : ps[i].st # "heap"

\* releasing a pointer the allocator never returned is undefined: the
\* process is ended by the allocator at that call, or goes on
cb_narvar_exit(aborts) ==
    /\ plugin = "narvar"
    /\ nLife \in {"ready", "init_failed"}
    /\ LET calls == NarvarExitFrees(nContext, nctx)
           done  == IF aborts THEN UpToBadFree(calls) ELSE calls
       IN  /\ aborts => HasBadFree(calls)
           /\ heap'      = ReleaseAll(heap, done)
           /\ frees'     = CountAll(frees, done)
           /\ freeCalls' = freeCalls \cup Range(done)
    /\ nLife' = IF aborts THEN "crashed" ELSE "exited"
    /\ UNCHANGED <<plugin, pvars, fvars, nInitRet, nContext, nctx, nbuf,
                   cnt, nOutcome, nAllocOk>>

\* ------------------------------------------------------------------ system
Init ==
    /\ plugin \in Plugins
    /\ heap = [i \in SessionIds |-> "unalloc"]
    /\ frees = [i \in SessionIds |-> 0]
    /\ freeCalls = {}
    /\ pLife = "unloaded"
    /\ pInitRet = "unset"
    /\ pContext = NULL
    /\ pctx = ZeroCtx
    /\ pInitIn = [calloc |-> TRUE, client |-> TRUE, err |-> "unset"]
    /\ pc = "idle"
    /\ data = NoBatch
    /\ array_size = 0
    /\ tmp_sbuf = <<>>
    /\ json_ret = "unset"
    /\ json_buf = JNull
    /\ fres = NoRes
    /\ sent = <<>>
    /\ err = "unset"
    /\ outcome = "none"
    /\ prevOutcome = "none"
    /\ nLife = "unloaded"
    /\ nInitRet = "unset"
    /\ nContext = NULL
    /\ nctx = ZeroNCtx
    /\ nbuf = "none"
    /\ cnt = 0
    /\ nOutcome = "none"
    /\ nAllocOk = TRUE

Next ==
    \/ \E callocOk \in BOOLEAN, hasTopicProp \in BOOLEAN, clientOk \in BOOLEAN,
          e \in PulsarResults : cb_pulsar_init(callocOk, hasTopicProp, clientOk, e)
    \/ PFlushCount
    \/ PFlushPack
    \/ \E allocOk \in BOOLEAN : PFlushJson(allocOk)
    \/ \E e \in PulsarResults : PFlushSend(e)
    \/ PFlushReturn
    \/ cb_pulsar_exit
    \/ \E callocOk \in BOOLEAN : cb_narvar_init(callocOk)
    \/ cb_narvar_flush
    \/ \E aborts \in BOOLEAN : cb_narvar_exit(aborts)

Spec == Init /\ [][Next]_vars

\* ================================================================ claims
PulsarIds == {"p_ctx", "p_conf", "p_client", "p_producer_conf", "p_producer",
              "p_broker", "p_topic"}

\* the field-maps of the records of a batch, in order
FieldMapsOf(d) == [i \in 1..Len(d.recs) |-> d.recs[i][2]]

\* the maps written into a temporary buffer
MapsWritten(buf) == Cardinality({i \in 1..Len(buf) : buf[i].t = "map"})

\* C1: whenever the broker send returns a result other than Ok, the flush
\* reports Retry to the host agent.
C1_SendFailureRetries ==
    (pc = "done" /\ err \notin {"unset", "Ok"}) => outcome = "FLB_RETRY"

\* C2: a flush over a truncated buffer hands no message to the broker and
\* never reports Success, however many valid records precede the cut.
C2_TruncatedNeverSent ==
    data.tail = "trunc" => (sent = <<>> /\ outcome # "FLB_OK")

\* C3 as stated: every flush of a well-formed batch of K records builds
\* exactly one message, whose payload is the array of the K field-maps.
C3_OneMessagePerBatch ==
    (pc = "done" /\ data.tail = "none") =>
        /\ Len(sent) = 1
        /\ sent[1].payload = [type |-> "array", elems |-> FieldMapsOf(data)]

\* C3 amended: the array length declared by the first pass equals the
\* number of maps the second pass wrote; a flush builds at most one message;
\* and every flush of a well-formed batch of K records whose JSON conversion
\* succeeds builds exactly one message, whose payload is the array of the K
\* field-maps in input order, timestamps left out.  When the conversion
\* fails no message is built.
C3_PayloadIsFieldMaps ==
    /\ pc = "json" => (/\ tmp_sbuf[1] = ArrayHdr(array_size)
                       /\ MapsWritten(tmp_sbuf) = array_size)
    /\ Len(sent) <= 1
    /\ (pc = "done" /\ data.tail = "none" /\ json_ret = "0") =>
           /\ Len(sent) = 1
           /\ sent[1].payload = [type |-> "array", elems |-> FieldMapsOf(data)]
           /\ Len(sent[1].payload.elems) = Len(data.recs)
    /\ (pc = "done" /\ json_ret = "-1") => sent = <<>>

\* C3 witness: a flush of two records with different timestamps and
\* two-entry maps in different key order has sent its one message
C3_Witness ==
    /\ pc = "done"
    /\ data.tail = "none"
    /\ Len(data.recs) = 2
    /\ data.recs[1][1] # data.recs[2][1]
    /\ Len(data.recs[1][2]) = 2
    /\ Len(data.recs[2][2]) = 2
    /\ data.recs[1][2] # data.recs[2][2]
    /\ Len(sent) = 1

\* C4: when the flush returns, every resource it acquired is released.
C4_FlushReleasesAll ==
    pc = "done" => \A r \in FlushRes : fres[r] # "live"

OwnCode(ret, e) ==
    IF ret # "0" THEN "FLB_ERROR"
    ELSE IF e = "Ok" THEN "FLB_OK" ELSE "FLB_ERROR"

\* C6: no step of a flush changes a field of the session context, the
\* context pointer or any session handle, and the code a flush returns is
\* decided by its own JSON conversion and its own send, whatever the flush
\* before it returned.
C6_FlushLeavesSession ==
    /\ [](pc = "done" => outcome = OwnCode(json_ret, err))
    /\ [][pc' # pc => (/\ pctx' = pctx
                       /\ pContext' = pContext
                       /\ heap' = heap
                       /\ frees' = frees)]_vars

\* C6 witness: a flush has succeeded right after one that failed, with the
\* session context as init left it
C6_Witness ==
    /\ pc = "done"
    /\ prevOutcome = "FLB_ERROR"
    /\ outcome = "FLB_OK"
    /\ pctx.producer = Heap("p_producer")
    /\ pctx.blocked = 0

\* C7: a flush moves idle -> decoding -> encoding -> publishing -> returned
\* and skips publishing only when the JSON conversion failed; a send happens
\* only after the passes over the buffer and a successful conversion; a
\* failed conversion ends the flush Failed with nothing sent; a returned
\* flush has exactly one of the two terminal outcomes.
C7_PhaseOrder ==
    /\ [][pc' # pc => <<pc, pc'>> \in {<<"idle", "pack">>, <<"pack", "json">>,
                                       <<"json", "send">>, <<"json", "done">>,
                                       <<"send", "done">>, <<"done", "idle">>}]_vars
    /\ [][(pc = "json" /\ pc' = "done") => json_ret' = "-1"]_vars
    /\ [](sent # <<>> => (pc = "done" /\ json_ret = "0" /\ fres["result"] = "released"))
    /\ [](json_ret = "-1" => (pc = "done" /\ sent = <<>> /\ outcome = "FLB_ERROR"))
    /\ [](pc = "done" <=> outcome \in {"FLB_OK", "FLB_ERROR"})
    /\ [](pc # "done" => outcome = "none")

\* C7 witness: after a flush that went all the way, a flush has ended
\* Failed at the JSON conversion without sending
C7_Witness ==
    /\ pc = "done"
    /\ prevOutcome = "FLB_OK"
    /\ json_ret = "-1"
    /\ sent = <<>>
    /\ outcome = "FLB_ERROR"

\* C8: a flush in which an allocation fails prints/sends nothing further
\* and reports Retry.
C8_AllocFailureRetries ==
    /\ (nOutcome # "none" /\ ~nAllocOk) => (nOutcome = "FLB_RETRY" /\ cnt = 0)
    /\ (pc = "done" /\ json_ret = "-1") => (outcome = "FLB_RETRY" /\ sent = <<>>)

\* C9: when init has failed, and when shutdown has completed, no handle
\* acquired by init is still held and none was released twice.
C9_SessionHandlesReleasedOnce ==
    pLife \in {"init_failed", "exited"} =>
        \A h \in PulsarIds : heap[h] # "live" /\ frees[h] <= 1

\* C10: every pointer handed to the deallocator is a heap block, and no
\* block is released twice.
C10_ExitFreesOnlyHeap ==
    /\ \A p \in freeCalls : p.st = "heap"
    /\ \A h \in SessionIds : frees[h] <= 1

====
